---- MODULE Spec2Model ----
(***************************************************************************)
(* SQLite::Column (src/SQLiteC++/Column.h): a read-only view of one cell   *)
(* of the current result row of a prepared statement.  A Column holds a    *)
(* reference-counted Statement::Ptr and a column index; every getter       *)
(* forwards to the engine primitive of the same name for (mStmtPtr,        *)
(* mIndex).  The engine primitives, the Statement and the bodies of the    *)
(* out-of-line getters are not part of Column.h; they are modelled from    *)
(* the interface contract the header and the specification document.       *)
(***************************************************************************)
EXTENDS Integers, Sequences, FiniteSets, TLC

(***************************************************************************)
(* Bounds of the model.                                                    *)
(***************************************************************************)
\* Number of Column objects the caller can hold at the same time.
MaxCols == 2

(***************************************************************************)
(* Storage type tags (Column.h:59).                                        *)
(***************************************************************************)
SQLITE_INTEGER == "SQLITE_INTEGER"
SQLITE_FLOAT == "SQLITE_FLOAT"
SQLITE_TEXT == "SQLITE_TEXT"
SQLITE_BLOB == "SQLITE_BLOB"
SQLITE_NULL == "SQLITE_NULL"
Tags == {SQLITE_INTEGER, SQLITE_FLOAT, SQLITE_TEXT, SQLITE_BLOB, SQLITE_NULL}

(***************************************************************************)
(* 64-bit integers.  A sqlite3_int64 v is the pair [hi, lo] with           *)
(* v = hi * 2^32 + lo and lo the low 32 bits read as a signed 32-bit       *)
(* number, so that the C conversion (int)v is exactly lo.                  *)
(***************************************************************************)
I64(hi, lo) == [hi |-> hi, lo |-> lo]
I64OfInt(n) == I64(0, n)
I64Zero == I64OfInt(0)
I64IsNeg(v) == v.hi < 0 \/ (v.hi = 0 /\ v.lo < 0)
IntMin == -2147483647 - 1
I64Neg(v) == IF v.lo = IntMin THEN I64(1 - v.hi, IntMin) ELSE I64(-v.hi, -v.lo)
I64Abs(v) == IF I64IsNeg(v) THEN I64Neg(v) ELSE v
\* a conversion that keeps the wrong half of the 64 bits
CastIntHighWord(v) == v.hi
\* (int) of a sqlite3_int64: the low 32 bits, two's complement.
CastInt(v) == v.lo
\* the value fits the 32-bit int
FitsInt(v) == v.hi = 0

\* The four 16-bit limbs (most significant first) of a non-negative v.
Limbs(v) ==
  LET hu == v.hi - (IF v.lo < 0 THEN 1 ELSE 0)
  IN  << hu \div 65536, hu % 65536, (v.lo \div 65536) % 65536, v.lo % 65536 >>

RECURSIVE DivLimbs(_, _, _)
\* <<quotient limbs, remainder>> of limbs a (most significant first) by 10,
\* entering with remainder r and the quotient limbs q found so far.
DivLimbs(a, r, q) ==
  IF a = << >> THEN << q, r >>
  ELSE LET cur == r * 65536 + Head(a)
       IN  DivLimbs(Tail(a), cur % 10, Append(q, cur \div 10))

RECURSIVE DigitsOfLimbs(_)
\* decimal digits (most significant first) of the number held in limbs; << >> for 0
DigitsOfLimbs(a) ==
  IF \A k \in 1..Len(a) : a[k] = 0 THEN << >>
  ELSE LET qr == DivLimbs(a, 0, << >>)
       IN  Append(DigitsOfLimbs(qr[1]), qr[2])

\* ASCII codes of the characters the numeric conversions read and write
Ch == [zero |-> 48, minus |-> 45, plus |-> 43, dot |-> 46, space |-> 32]
ChZero == Ch.zero
ChMinus == Ch.minus
ChPlus == Ch.plus
ChDot == Ch.dot
ChSpace == Ch.space
IsDigit(b) == b >= ChZero /\ b <= ChZero + 9

DigitChars(ds) == [k \in 1..Len(ds) |-> ChZero + ds[k]]
\* "%lld": the decimal text of a 64-bit integer
I64ToText(v) ==
  LET ds == DigitsOfLimbs(Limbs(I64Abs(v)))
      body == IF ds = << >> THEN << ChZero >> ELSE DigitChars(ds)
  IN  IF I64IsNeg(v) THEN << ChMinus >> \o body ELSE body

(***************************************************************************)
(* Doubles.  A double is modelled by the decimal number the engine prints  *)
(* for it: a sign, a non-negative integer part and the fraction digits     *)
(* (no trailing zero).  The model holds only doubles that are such short   *)
(* decimals (4.5, 42.0, 0.0, the integers below 2^53).                      *)
(***************************************************************************)
Dbl(neg, w, frac) == [neg |-> neg, w |-> w, frac |-> frac]
DblZero == Dbl(FALSE, I64Zero, << >>)
\* (double) of a sqlite3_int64
I64ToDbl(v) == Dbl(I64IsNeg(v), I64Abs(v), << >>)
\* (sqlite3_int64) of a double: truncation toward zero
DblToI64(d) == IF d.neg THEN I64Neg(d.w) ELSE d.w
\* "%!.15g": the decimal text of a double, always with a decimal point
DblToText(d) ==
  (IF d.neg THEN << ChMinus >> ELSE << >>)
    \o I64ToText(d.w) \o << ChDot >>
    \o (IF d.frac = << >> THEN << ChZero >> ELSE DigitChars(d.frac))

(***************************************************************************)
(* Text to number: the longest numeric prefix, else 0.                     *)
(***************************************************************************)
RECURSIVE SkipSpaces(_)
SkipSpaces(s) ==
  IF s # << >> /\ Head(s) = ChSpace THEN SkipSpaces(Tail(s)) ELSE s

RECURSIVE DigitPrefix(_)
\* the leading decimal digits of s, as digits
DigitPrefix(s) ==
  IF s # << >> /\ IsDigit(Head(s))
    THEN << Head(s) - ChZero >> \o DigitPrefix(Tail(s))
    ELSE << >>

RECURSIVE DigitsValue(_, _)
\* the number the digits ds denote, starting from acc
DigitsValue(ds, acc) ==
  IF ds = << >> THEN acc ELSE DigitsValue(Tail(ds), acc * 10 + Head(ds))

RECURSIVE StripTrailingZeros(_)
StripTrailingZeros(ds) ==
  IF ds # << >> /\ ds[Len(ds)] = 0
    THEN StripTrailingZeros(SubSeq(ds, 1, Len(ds) - 1))
    ELSE ds

\* sign and rest of a numeric text
SignOf(s) == s # << >> /\ Head(s) = ChMinus
AfterSign(s) ==
  IF s # << >> /\ (Head(s) = ChMinus \/ Head(s) = ChPlus) THEN Tail(s) ELSE s

\* integer value of the numeric prefix of a byte string (0 when there is none)
TextToI64(s) ==
  LET t == SkipSpaces(s)
      n == DigitsValue(DigitPrefix(AfterSign(t)), 0)
  IN  I64OfInt(IF SignOf(t) THEN -n ELSE n)

\* double value of the numeric prefix of a byte string (0.0 when there is none)
TextToDbl(s) ==
  LET t == SkipSpaces(s)
      u == AfterSign(t)
      ip == DigitPrefix(u)
      rest == SubSeq(u, Len(ip) + 1, Len(u))
      fp == IF rest # << >> /\ Head(rest) = ChDot
              THEN StripTrailingZeros(DigitPrefix(Tail(rest)))
              ELSE << >>
      w == I64OfInt(DigitsValue(ip, 0))
  IN  IF ip = << >> /\ fp = << >> THEN DblZero
      ELSE Dbl(SignOf(t) /\ (w # I64Zero \/ fp # << >>), w, fp)

RECURSIVE CStr(_)
\* what a reader of a NUL-terminated string sees: the bytes before the first 0
CStr(s) ==
  IF s = << >> \/ Head(s) = 0 THEN << >> ELSE << Head(s) >> \o CStr(Tail(s))

(***************************************************************************)
(* The result set.  A cell stores a value of one of the five storage       *)
(* types; texts and blobs are byte sequences.                              *)
(***************************************************************************)
IntCell(v) == [type |-> SQLITE_INTEGER, i |-> v]
FloatCell(d) == [type |-> SQLITE_FLOAT, r |-> d]
TextCell(s) == [type |-> SQLITE_TEXT, z |-> s]
BlobCell(s) == [type |-> SQLITE_BLOB, z |-> s]
NullCell == [type |-> SQLITE_NULL]

\* "hello", "12abc" and the blob 00 FF 10
TxtHello == << 104, 101, 108, 108, 111 >>
Txt12abc == << 49, 50, 97, 98, 99 >>
Blob00FF10 == << 0, 255, 16 >>

\* The rows the statement produces, one after the other:
\*   123, 4.5 | 'hello', NULL | x'00FF10', 42 | 4294967338, '12abc'
Table ==
  << << IntCell(I64OfInt(123)), FloatCell(Dbl(FALSE, I64OfInt(4), << 5 >>)) >>,
     << TextCell(TxtHello), NullCell >>,
     << BlobCell(Blob00FF10), IntCell(I64OfInt(42)) >>,
     << IntCell(I64(1, 42)), TextCell(Txt12abc) >> >>
NumRows == Len(Table)
NumCols == Len(Table[1])
Indexes == 0..(NumCols - 1)

(***************************************************************************)
(* The engine's cell (spec §4.1, §6, glossary "Coercion").  val is the     *)
(* stored value, coerced whether a getter of another type has been served *)
(* since the row was positioned,                                           *)
(* z the byte buffer the text and blob primitives point into, term        *)
(* whether z is NUL-terminated, alloc the allocation z lives in (0 when    *)
(* no buffer has been made).                                               *)
(***************************************************************************)
HasBytes(v) == v.type \in {SQLITE_TEXT, SQLITE_BLOB}
LoadCell(v) ==
  [val |-> v, coerced |-> FALSE,
   z |-> IF HasBytes(v) THEN v.z ELSE << >>,
   term |-> v.type = SQLITE_TEXT,
   alloc |-> IF HasBytes(v) THEN 1 ELSE 0]

\* the value primitives: what the engine returns for a stored value
ValueInt64(v) ==
  CASE v.type = SQLITE_INTEGER -> v.i
    [] v.type = SQLITE_FLOAT -> DblToI64(v.r)
    [] HasBytes(v) -> TextToI64(v.z)
    [] OTHER -> I64Zero
ValueDouble(v) ==
  CASE v.type = SQLITE_INTEGER -> I64ToDbl(v.i)
    [] v.type = SQLITE_FLOAT -> v.r
    [] HasBytes(v) -> TextToDbl(v.z)
    [] OTHER -> DblZero
\* the bytes of the text (or blob) form of the value, without terminator
ValueText(v) ==
  CASE v.type = SQLITE_INTEGER -> I64ToText(v.i)
    [] v.type = SQLITE_FLOAT -> DblToText(v.r)
    [] HasBytes(v) -> v.z
    [] OTHER -> << >>
ValueBytes(v) == Len(ValueText(v))

(***************************************************************************)
(* State.                                                                  *)
(*   stmtObj    the Statement object is alive (it holds one reference)     *)
(*   refCount   reference count of the shared statement handle             *)
(*   finalized  the prepared statement has been released                   *)
(*   pos        0 before the first row, 1..NumRows on a row, NumRows+1     *)
(*              when the result set is exhausted                           *)
(*   mem        the engine's cells of the current row (empty off a row)    *)
(*   cols       the caller's Column objects: NoCol or [mStmtPtr, mIndex]   *)
(*   held       the pointer the caller kept from its last getText()        *)
(*   last       the last call made: its name, column index and result     *)
(*   orig       history: the Column object last made as a copy, the fields *)
(*              of the object it was copied from and whether that one has  *)
(*              been destroyed since                                       *)
(*   observe    which of the caller's records a behaviour keeps besides    *)
(*              last: "pointer" keeps held, "copies" keeps orig, "calls"   *)
(*              neither.  It never changes, and no action of the program   *)
(*              reads held or orig, so every specification below has the   *)
(*              same behaviours of the program.                            *)
(***************************************************************************)
VARIABLES stmtObj, refCount, finalized, pos, mem, cols, held, last, orig, observe
vars ==
  << stmtObj, refCount, finalized, pos, mem, cols, held, last, orig, observe >>

TheStmt == "stmt"
NoCol == [none |-> "NoCol"]
NoPtr == [none |-> "NoPtr"]
Dangling == [none |-> "Dangling"]
NoRet == "NoRet"
NoIdx == 0 - 1
NoOrig == [none |-> "NoOrig"]
Slots == 1..MaxCols

OnRow == ~finalized /\ pos \in 1..NumRows
Live(a) == cols[a] # NoCol
\* a Column object the caller may call getters on: its statement is on a row
Valid(a) == Live(a) /\ OnRow
\* the engine cell a Column object views
Cell(c) == mem[c.mIndex + 1]

(***************************************************************************)
(* What serving a request does to the engine cell.                         *)
(***************************************************************************)
\* the storage type a request kind reads without conversion
IsNative(req, type) ==
  CASE req = "type" -> TRUE
    [] req = "int" -> type = SQLITE_INTEGER
    [] req = "double" -> type = SQLITE_FLOAT
    [] req = "text" -> type = SQLITE_TEXT
    [] req = "blob" -> type = SQLITE_BLOB
    [] req = "bytes" -> type \in {SQLITE_TEXT, SQLITE_BLOB}

\* an engine that moves an existing buffer when it is read as a blob
BufAfterMoving(m, req) ==
  LET same == {[z |-> m.z, term |-> m.term, alloc |-> m.alloc]}
      rendered == {[z |-> ValueText(m.val), term |-> TRUE, alloc |-> 1]}
      moved == {[z |-> m.z, term |-> m.term, alloc |-> m.alloc + 1]}
  IN  CASE m.val.type = SQLITE_NULL -> same
        [] req \in {"text", "blob", "bytes"} /\ m.alloc = 0 -> rendered
        [] req = "text" /\ ~m.term ->
             {[z |-> m.z, term |-> TRUE, alloc |-> n] : n \in {m.alloc, m.alloc + 1}}
        [] req = "blob" -> moved
        [] OTHER -> same
\* the buffers the cell may have after the request: a numeric value is
\* rendered as text when its bytes are asked for, a blob gets a terminator
\* (in place or in a new allocation) when it is read as text
BufAfter(m, req) ==
  LET same == {[z |-> m.z, term |-> m.term, alloc |-> m.alloc]}
      rendered == {[z |-> ValueText(m.val), term |-> TRUE, alloc |-> 1]}
  IN  CASE m.val.type = SQLITE_NULL -> same
        [] req \in {"text", "blob", "bytes"} /\ m.alloc = 0 -> rendered
        [] req = "text" /\ ~m.term ->
             {[z |-> m.z, term |-> TRUE, alloc |-> n] : n \in {m.alloc, m.alloc + 1}}
        [] OTHER -> same

\* a type conversion has been made on the cell: a getXxx was called on a
\* cell of another type (Column.h:61)
Converted(m, req) == m.coerced \/ ~IsNative(req, m.val.type)

MemOutcomes(m, req) ==
  { [m EXCEPT !.coerced = Converted(m, req),
              !.z = b.z, !.term = b.term, !.alloc = b.alloc]
      : b \in BufAfter(m, req) }

\* a type primitive that keeps reporting the storage type
ColumnTypeCached(m) == {m.val.type}
\* the tags the type primitive may report for a cell: the storage type, and
\* an undefined value once a conversion has been made (Column.h:61-62)
ColumnType(m) == IF m.coerced THEN Tags ELSE {m.val.type}

\* the bytes a reader of the cell's text buffer sees, terminator included
TextBuf(m) == (IF m.alloc = 0 THEN ValueText(m.val) ELSE m.z) \o << 0 >>

(***************************************************************************)
(* The getters of a Column object c, as values of the current state.       *)
(***************************************************************************)
getInt64(c) == ValueInt64(Cell(c).val)
getInt(c) == CastInt(ValueInt64(Cell(c).val))
getDouble(c) == ValueDouble(Cell(c).val)
\* the NUL-terminated string the returned pointer addresses
getText(c) == CStr(TextBuf(Cell(c)))
\* the bytes the returned pointer addresses; their number is getBytes()
getBlob(c) == ValueText(Cell(c).val)
\* the values getType() may return
getType(c) == ColumnType(Cell(c))
\* a byte count taken as the length of the NUL-terminated string
getBytesStrlen(c) == Len(CStr(TextBuf(Cell(c))))
getBytes(c) == ValueBytes(Cell(c).val)

\* the predicates, of the value t their call of getType() returned
isIntegerSlip(t) == SQLITE_FLOAT = t
isInteger(t) == SQLITE_INTEGER = t
isFloat(t) == SQLITE_FLOAT = t
isText(t) == SQLITE_TEXT = t
isBlob(t) == SQLITE_BLOB = t
isNullSlip(t) == SQLITE_BLOB = t
isNull(t) == SQLITE_NULL = t

\* an operator int() that forwards to the wrong getter
operatorIntSlip(c) == getBytes(c)
operatorInt(c) == getInt(c)
operatorInt64(c) == getInt64(c)
operatorDouble(c) == getDouble(c)
operatorText(c) == getText(c)
operatorBlob(c) == getBlob(c)
\* the std::string built from the string getText() points at (GCC builds)
operatorString(c) == getText(c)

\* the engine's description of the most recent error of the connection
sqlite3_errmsg(s) == "not an error"
errmsg(c) == sqlite3_errmsg(c.mStmtPtr)

\* the request each call makes of the engine
RequestOf ==
  [getInt |-> "int", getInt64 |-> "int", getDouble |-> "double",
   getText |-> "text", getBlob |-> "blob", getType |-> "type",
   getBytes |-> "bytes",
   isInteger |-> "type", isFloat |-> "type", isText |-> "type",
   isBlob |-> "type", isNull |-> "type",
   operatorInt |-> "int", operatorInt64 |-> "int", operatorDouble |-> "double",
   operatorText |-> "text", operatorBlob |-> "blob", operatorString |-> "text"]

(***************************************************************************)
(* Pointers the caller holds.                                              *)
(***************************************************************************)
\* the pointer getText() returns for column index idx in cells ms
TextPtr(ms, idx) ==
  [col |-> idx, alloc |-> ms[idx + 1].alloc, str |-> CStr(TextBuf(ms[idx + 1]))]
IsPtr(h) == h \notin {NoPtr, Dangling}
\* a held pointer after the cells became ms: it dangles when its buffer moved
HeldAfter(h, ms) ==
  IF IsPtr(h) /\ ms[h.col + 1].alloc # h.alloc THEN Dangling ELSE h
\* what the caller holds after getText() on Column object a returned
KeptPtr(a) ==
  IF observe = "pointer" /\ Cell(cols[a]).val.type # SQLITE_NULL
    THEN TextPtr(mem', cols[a].mIndex)
    ELSE HeldAfter(held, mem')
\* a held pointer after the row's buffers were released
Released(h) == IF h = NoPtr THEN NoPtr ELSE Dangling

(***************************************************************************)
(* Calls on a Column object.                                               *)
(***************************************************************************)
\* a getter that moves every Column object back to the first column
MutableMember ==
  cols' = [a \in Slots |->
             IF Live(a) THEN [cols[a] EXCEPT !.mIndex = 0] ELSE cols[a]]
\* a const member function leaves every Column object's fields alone
ConstMember == cols' = cols

\* a getter that refuses a cell of another type instead of converting it
CanServeStrict(a, req) ==
  Valid(a) /\ IsNative(req, Cell(cols[a]).val.type)
\* the condition under which a const member of Column completes: declared
\* throw(), it completes on every valid Column, whatever the request
CanServe(a, req) ==
  Valid(a) /\ MemOutcomes(Cell(cols[a]), req) # {}

\* the engine serves request req for Column object a
Serve(a, req) ==
  /\ CanServe(a, req)
  /\ \E m2 \in MemOutcomes(Cell(cols[a]), req) :
       mem' = [mem EXCEPT ![cols[a].mIndex + 1] = m2]
  /\ ConstMember
  /\ UNCHANGED << stmtObj, refCount, finalized, pos, orig, observe >>

Returned(op, a, v) == last' = [op |-> op, idx |-> cols[a].mIndex, ret |-> v]

CallGetInt(a) ==
  Serve(a, RequestOf.getInt) /\ Returned("getInt", a, getInt(cols[a]))
    /\ held' = HeldAfter(held, mem')
CallGetInt64(a) ==
  Serve(a, RequestOf.getInt64) /\ Returned("getInt64", a, getInt64(cols[a]))
    /\ held' = HeldAfter(held, mem')
CallGetDouble(a) ==
  Serve(a, RequestOf.getDouble) /\ Returned("getDouble", a, getDouble(cols[a]))
    /\ held' = HeldAfter(held, mem')
\* the caller keeps the returned pointer
CallGetText(a) ==
  Serve(a, RequestOf.getText) /\ Returned("getText", a, getText(cols[a]))
    /\ held' = KeptPtr(a)
CallGetBlob(a) ==
  Serve(a, RequestOf.getBlob) /\ Returned("getBlob", a, getBlob(cols[a]))
    /\ held' = HeldAfter(held, mem')
CallGetType(a) ==
  Serve(a, RequestOf.getType)
    /\ \E t \in getType(cols[a]) : Returned("getType", a, t)
    /\ held' = HeldAfter(held, mem')
CallGetBytes(a) ==
  Serve(a, RequestOf.getBytes) /\ Returned("getBytes", a, getBytes(cols[a]))
    /\ held' = HeldAfter(held, mem')

CallIsInteger(a) ==
  Serve(a, RequestOf.isInteger)
    /\ \E t \in getType(cols[a]) : Returned("isInteger", a, isInteger(t))
    /\ held' = HeldAfter(held, mem')
CallIsFloat(a) ==
  Serve(a, RequestOf.isFloat)
    /\ \E t \in getType(cols[a]) : Returned("isFloat", a, isFloat(t))
    /\ held' = HeldAfter(held, mem')
CallIsText(a) ==
  Serve(a, RequestOf.isText)
    /\ \E t \in getType(cols[a]) : Returned("isText", a, isText(t))
    /\ held' = HeldAfter(held, mem')
CallIsBlob(a) ==
  Serve(a, RequestOf.isBlob)
    /\ \E t \in getType(cols[a]) : Returned("isBlob", a, isBlob(t))
    /\ held' = HeldAfter(held, mem')
CallIsNull(a) ==
  Serve(a, RequestOf.isNull)
    /\ \E t \in getType(cols[a]) : Returned("isNull", a, isNull(t))
    /\ held' = HeldAfter(held, mem')

CallOperatorInt(a) ==
  Serve(a, RequestOf.operatorInt) /\ Returned("operator int", a, operatorInt(cols[a]))
    /\ held' = HeldAfter(held, mem')
CallOperatorInt64(a) ==
  Serve(a, RequestOf.operatorInt64)
    /\ Returned("operator sqlite3_int64", a, operatorInt64(cols[a]))
    /\ held' = HeldAfter(held, mem')
CallOperatorDouble(a) ==
  Serve(a, RequestOf.operatorDouble)
    /\ Returned("operator double", a, operatorDouble(cols[a]))
    /\ held' = HeldAfter(held, mem')
CallOperatorText(a) ==
  Serve(a, RequestOf.operatorText)
    /\ Returned("operator const char*", a, operatorText(cols[a]))
    /\ held' = KeptPtr(a)
CallOperatorBlob(a) ==
  Serve(a, RequestOf.operatorBlob)
    /\ Returned("operator const void*", a, operatorBlob(cols[a]))
    /\ held' = HeldAfter(held, mem')
\* the caller gets a copy of the characters, no pointer
CallOperatorString(a) ==
  Serve(a, RequestOf.operatorString)
    /\ Returned("operator const std::string", a, operatorString(cols[a]))
    /\ held' = HeldAfter(held, mem')

CallErrmsg(a) ==
  /\ Live(a) /\ ~finalized
  /\ Returned("errmsg", a, errmsg(cols[a]))
  /\ ConstMember
  /\ UNCHANGED << stmtObj, refCount, finalized, pos, mem, held, orig, observe >>

(***************************************************************************)
(* The shared statement handle and the Column objects' lifetime.           *)
(***************************************************************************)
\* one more holder of the handle
Acquire == refCount' = refCount + 1 /\ UNCHANGED << finalized, mem, held, pos >>
\* one holder less; the last one releases the prepared statement
Release ==
  /\ refCount' = refCount - 1
  /\ IF refCount = 1
       THEN finalized' = TRUE /\ mem' = << >> /\ held' = Released(held)
       ELSE UNCHANGED << finalized, mem, held >>
  /\ UNCHANGED pos

\* the fields of a Column constructed for a statement handle and an index
Column(aStmtPtr, aIndex) == [mStmtPtr |-> aStmtPtr, mIndex |-> aIndex]
\* a copy that keeps the handle and not the index
CopyOfDroppingIndex(c) == [mStmtPtr |-> c.mStmtPtr, mIndex |-> 0]
\* the fields of a copy of Column object c
CopyOf(c) == [mStmtPtr |-> c.mStmtPtr, mIndex |-> c.mIndex]

\* history: the Column object in slot b is a copy of the one in slot a
CopiedFrom(a, b) ==
  IF observe = "copies"
    THEN [copy |-> b, src |-> a, fields |-> cols[a], dead |-> FALSE]
    ELSE NoOrig

\* the statement hands out a Column for a cell of its current row
GetColumn(a, idx) ==
  /\ stmtObj /\ OnRow /\ ~Live(a)
  /\ cols' = [cols EXCEPT ![a] = Column(TheStmt, idx)]
  /\ UNCHANGED orig
  /\ Acquire
  /\ last' = [op |-> "Column", idx |-> NoIdx, ret |-> NoRet]
  /\ UNCHANGED << stmtObj, observe >>

\* copy construction of b from a
CopyColumn(a, b) ==
  /\ Live(a) /\ ~Live(b)
  /\ cols' = [cols EXCEPT ![b] = CopyOf(cols[a])]
  /\ orig' = CopiedFrom(a, b)
  /\ Acquire
  /\ last' = [op |-> "copy", idx |-> NoIdx, ret |-> NoRet]
  /\ UNCHANGED << stmtObj, observe >>

\* copy assignment b = a: b takes a's fields; the handle b held is released
\* and a's acquired (both are the one statement's)
AssignColumn(a, b) ==
  /\ Live(a) /\ Live(b) /\ a # b
  /\ cols' = [cols EXCEPT ![b] = CopyOf(cols[a])]
  /\ orig' = CopiedFrom(a, b)
  /\ last' = [op |-> "assign", idx |-> NoIdx, ret |-> NoRet]
  /\ UNCHANGED << stmtObj, refCount, finalized, pos, mem, held, observe >>

DestroyColumn(a) ==
  /\ Live(a)
  /\ cols' = [cols EXCEPT ![a] = NoCol]
  /\ orig' = IF orig = NoOrig THEN NoOrig
             ELSE IF orig.copy = a THEN NoOrig
             ELSE IF orig.src = a THEN [orig EXCEPT !.src = 0, !.dead = TRUE]
             ELSE orig
  /\ Release
  /\ last' = [op |-> "~Column", idx |-> NoIdx, ret |-> NoRet]
  /\ UNCHANGED << stmtObj, observe >>

(***************************************************************************)
(* The statement.                                                          *)
(***************************************************************************)
LoadRow(r) == [i \in 1..NumCols |-> LoadCell(Table[r][i])]

ExecuteStep ==
  /\ stmtObj /\ ~finalized /\ pos <= NumRows
  /\ pos' = pos + 1
  /\ mem' = IF pos + 1 <= NumRows THEN LoadRow(pos + 1) ELSE << >>
  /\ held' = Released(held)
  /\ last' = [op |-> "executeStep", idx |-> NoIdx, ret |-> NoRet]
  /\ UNCHANGED << stmtObj, refCount, finalized, cols, orig, observe >>

Reset ==
  /\ stmtObj /\ ~finalized
  /\ pos' = 0
  /\ mem' = << >>
  /\ held' = Released(held)
  /\ last' = [op |-> "reset", idx |-> NoIdx, ret |-> NoRet]
  /\ UNCHANGED << stmtObj, refCount, finalized, cols, orig, observe >>

DestroyStatement ==
  /\ stmtObj
  /\ stmtObj' = FALSE
  /\ Release
  /\ last' = [op |-> "~Statement", idx |-> NoIdx, ret |-> NoRet]
  /\ UNCHANGED << cols, orig, observe >>

Start(o) ==
  /\ stmtObj = TRUE
  /\ refCount = 1
  /\ finalized = FALSE
  /\ pos = 0
  /\ mem = << >>
  /\ cols = [a \in Slots |-> NoCol]
  /\ held = NoPtr
  /\ orig = NoOrig
  /\ last = [op |-> "Statement", idx |-> NoIdx, ret |-> NoRet]
  /\ observe = o

Init == Start("calls")
InitPointer == Start("pointer")
InitCopies == Start("copies")

Next ==
  \/ ExecuteStep
  \/ Reset
  \/ DestroyStatement
  \/ \E a \in Slots, idx \in Indexes : GetColumn(a, idx)
  \/ \E a \in Slots, b \in Slots : CopyColumn(a, b)
  \/ \E a \in Slots, b \in Slots : AssignColumn(a, b)
  \/ \E a \in Slots : DestroyColumn(a)
  \/ \E a \in Slots : CallGetInt(a)
  \/ \E a \in Slots : CallGetInt64(a)
  \/ \E a \in Slots : CallGetDouble(a)
  \/ \E a \in Slots : CallGetText(a)
  \/ \E a \in Slots : CallGetBlob(a)
  \/ \E a \in Slots : CallGetType(a)
  \/ \E a \in Slots : CallGetBytes(a)
  \/ \E a \in Slots : CallIsInteger(a)
  \/ \E a \in Slots : CallIsFloat(a)
  \/ \E a \in Slots : CallIsText(a)
  \/ \E a \in Slots : CallIsBlob(a)
  \/ \E a \in Slots : CallIsNull(a)
  \/ \E a \in Slots : CallOperatorInt(a)
  \/ \E a \in Slots : CallOperatorInt64(a)
  \/ \E a \in Slots : CallOperatorDouble(a)
  \/ \E a \in Slots : CallOperatorText(a)
  \/ \E a \in Slots : CallOperatorBlob(a)
  \/ \E a \in Slots : CallOperatorString(a)
  \/ \E a \in Slots : CallErrmsg(a)

Spec == Init /\ [][Next]_vars
\* the same program, the caller keeping the pointer of its last getText()
SpecPointer == InitPointer /\ [][Next]_vars
\* the same program, the history of the last copy kept
SpecCopies == InitCopies /\ [][Next]_vars

(***************************************************************************)
(* Vocabulary of the properties.                                           *)
(***************************************************************************)
GetterOps ==
  {"getInt", "getInt64", "getDouble", "getText", "getBlob", "getType", "getBytes"}
PredicateOps == {"isInteger", "isFloat", "isText", "isBlob", "isNull"}
OperatorOps ==
  {"operator int", "operator sqlite3_int64", "operator double",
   "operator const char*", "operator const void*"}
ConstCalls ==
  GetterOps \cup PredicateOps \cup OperatorOps
    \cup {"operator const std::string", "errmsg"}
\* the last call was made on a cell of the current row
LastOnCell == last.op \in ConstCalls \ {"errmsg"}
LastCell == mem[last.idx + 1]
\* the value the result set stores at the index of Column object c
StoredAt(c) == Table[pos][c.mIndex + 1]
\* the five predicates' answers for a tag
Predicates(t) == << isInteger(t), isFloat(t), isText(t), isBlob(t), isNull(t) >>
TagOrder == << SQLITE_INTEGER, SQLITE_FLOAT, SQLITE_TEXT, SQLITE_BLOB, SQLITE_NULL >>
IntMax == 0 - (IntMin + 1)
IsI64(v) == v \in [hi : IntMin..IntMax, lo : IntMin..IntMax]
IsBytes(s, low) == \A k \in 1..Len(s) : s[k] \in low..255

(***************************************************************************)
(* C1.  On a valid Column whose cell has served no coercing getter since   *)
(* the row was positioned, getType() returns exactly one of the five tags, *)
(* and each predicate is true iff getType() is its tag: exactly one of     *)
(* the five predicates is true.                                            *)
(***************************************************************************)
C1_TagAndPredicates ==
  /\ \A a \in Slots : Valid(a) /\ ~Cell(cols[a]).coerced =>
       /\ Cardinality(getType(cols[a])) = 1
       /\ getType(cols[a]) \subseteq Tags
       /\ \A t \in getType(cols[a]) :
            /\ \A n \in 1..5 : Predicates(t)[n] <=> (t = TagOrder[n])
            /\ Cardinality({n \in 1..5 : Predicates(t)[n]}) = 1
  /\ LastOnCell /\ ~LastCell.coerced =>
       /\ last.op = "getType" => last.ret = LastCell.val.type
       /\ last.op = "isInteger" => last.ret = (LastCell.val.type = SQLITE_INTEGER)
       /\ last.op = "isFloat" => last.ret = (LastCell.val.type = SQLITE_FLOAT)
       /\ last.op = "isText" => last.ret = (LastCell.val.type = SQLITE_TEXT)
       /\ last.op = "isBlob" => last.ret = (LastCell.val.type = SQLITE_BLOB)
       /\ last.op = "isNull" => last.ret = (LastCell.val.type = SQLITE_NULL)

\* isFloat() has just answered true on the untouched cell holding 4.5
C1_Witness ==
  /\ last.op = "isFloat" /\ last.ret = TRUE
  /\ ~LastCell.coerced /\ LastCell.val.type = SQLITE_FLOAT

(***************************************************************************)
(* C2.  A copy of a Column duplicates the statement handle (the reference  *)
(* count goes up by one) and the column index; the prepared statement is   *)
(* not released while a Column or the Statement object holds the handle;   *)
(* and a copy whose original has been destroyed, the statement being on a  *)
(* row, returns from every getter what the original would have returned.   *)
(***************************************************************************)
Holders == (IF stmtObj THEN 1 ELSE 0) + Cardinality({a \in Slots : Live(a)})
\* every getter gives the same for the Column fields c and d
SameGetters(c, d) ==
  /\ getInt(c) = getInt(d)
  /\ getInt64(c) = getInt64(d)
  /\ getDouble(c) = getDouble(d)
  /\ getText(c) = getText(d)
  /\ getBlob(c) = getBlob(d)
  /\ getType(c) = getType(d)
  /\ getBytes(c) = getBytes(d)
C2_HandleKept ==
  /\ refCount = Holders
  /\ Holders > 0 => ~finalized
  /\ orig # NoOrig /\ orig.dead /\ Valid(orig.copy) =>
       /\ cols[orig.copy] = orig.fields
       /\ SameGetters(cols[orig.copy], orig.fields)
C2_CopySemantics ==
  /\ []C2_HandleKept
  /\ [][ last'.op = "copy" /\ orig' # NoOrig =>
           /\ refCount' = refCount + 1
           /\ cols'[orig'.copy].mStmtPtr = cols[orig'.src].mStmtPtr
           /\ cols'[orig'.copy].mIndex = cols[orig'.src].mIndex
           /\ ~finalized' ]_vars

\* the Statement object and the original are gone; getText() has just been
\* served through the surviving copy, on the second column
C2_Witness ==
  /\ orig # NoOrig /\ orig.dead /\ ~stmtObj /\ refCount = 1
  /\ Valid(orig.copy) /\ cols[orig.copy].mIndex = 1
  /\ last.op = "getText" /\ last.idx = 1 /\ last.ret = Txt12abc

(***************************************************************************)
(* C3.  No call of a getter, a predicate, a conversion operator or         *)
(* errmsg() changes the fields of a Column object: it refers to the same   *)
(* statement and the same column index afterwards; only the engine's cell  *)
(* may change.                                                             *)
(***************************************************************************)
C3_FieldsFixed ==
  [][ last'.op \in ConstCalls => cols' = cols ]_vars

\* getText() has just rendered an integer cell as text: the engine's cell
\* changed, on the second column
C3_Witness ==
  /\ last.op = "getText" /\ last.idx = 1
  /\ LastCell.val.type = SQLITE_INTEGER /\ LastCell.alloc = 1
  /\ \E a \in Slots : Live(a) /\ cols[a] = Column(TheStmt, 1)

(***************************************************************************)
(* C4.  Every getter called on a valid Column returns a value of its type  *)
(* and never fails, whatever the storage type of the cell; a getter whose  *)
(* type is not the cell's returns the engine's coercion or default: 0,     *)
(* 0.0 or the empty text.                                                  *)
(***************************************************************************)
\* the bytes have no numeric prefix
NotNumeric(z) == DigitPrefix(AfterSign(SkipSpaces(z))) = << >>
C4_GettersTotal ==
  /\ \A a \in Slots : Valid(a) =>
       /\ CanServe(a, RequestOf.getInt)
       /\ CanServe(a, RequestOf.getInt64)
       /\ CanServe(a, RequestOf.getDouble)
       /\ CanServe(a, RequestOf.getText)
       /\ CanServe(a, RequestOf.getBlob)
       /\ CanServe(a, RequestOf.getType)
       /\ CanServe(a, RequestOf.getBytes)
       /\ getInt(cols[a]) \in IntMin..IntMax
       /\ IsI64(getInt64(cols[a]))
       /\ IsI64(getDouble(cols[a]).w) /\ IsBytes(getDouble(cols[a]).frac, 0)
       /\ IsBytes(getText(cols[a]), 1)
       /\ IsBytes(getBlob(cols[a]), 0)
       /\ getType(cols[a]) # {} /\ getType(cols[a]) \subseteq Tags
       /\ getBytes(cols[a]) \in Nat
       /\ StoredAt(cols[a]).type = SQLITE_NULL =>
            /\ getInt(cols[a]) = 0
            /\ getDouble(cols[a]) = DblZero
            /\ getText(cols[a]) = << >>
       /\ HasBytes(StoredAt(cols[a])) /\ NotNumeric(StoredAt(cols[a]).z) =>
            /\ getInt(cols[a]) = 0
            /\ getInt64(cols[a]) = I64Zero
            /\ getDouble(cols[a]) = DblZero
       /\ StoredAt(cols[a]) = TextCell(Txt12abc) =>
            /\ getInt(cols[a]) = 12
            /\ getInt64(cols[a]) = I64OfInt(12)
  /\ last.op = "getInt" => last.ret \in IntMin..IntMax
  /\ last.op = "getInt64" => IsI64(last.ret)
  /\ last.op = "getDouble" => IsI64(last.ret.w)
  /\ last.op = "getText" => IsBytes(last.ret, 1)
  /\ last.op = "getBlob" => IsBytes(last.ret, 0)
  /\ last.op = "getType" => last.ret \in Tags
  /\ last.op = "getBytes" => last.ret \in Nat

\* getInt() has just returned 0 for the text cell 'hello'
C4_Witness ==
  /\ last.op = "getInt" /\ last.ret = 0
  /\ LastCell.val = TextCell(TxtHello)

(***************************************************************************)
(* C5.  For a cell holding NULL, getInt() and getInt64() return 0,         *)
(* getDouble() returns 0.0, getText() gives a zero-length string and       *)
(* getBytes() returns 0; and as long as no getter other than getType()     *)
(* and the predicates has been called on the cell since the row was        *)
(* positioned, getType() returns the Null tag, isNull() is true and the    *)
(* other four predicates are false.                                        *)
(***************************************************************************)
NullValues(c) ==
  /\ getInt(c) = 0
  /\ getInt64(c) = I64Zero
  /\ getDouble(c) = DblZero
  /\ Len(getText(c)) = 0
  /\ getBytes(c) = 0
NullTag(c) ==
  /\ getType(c) = {SQLITE_NULL}
  /\ \A t \in getType(c) :
       Predicates(t) = << FALSE, FALSE, FALSE, FALSE, TRUE >>
C5_NullCell ==
  /\ \A a \in Slots : Valid(a) /\ StoredAt(cols[a]).type = SQLITE_NULL =>
       /\ NullValues(cols[a])
       /\ ~Cell(cols[a]).coerced => NullTag(cols[a])
  /\ LastOnCell /\ LastCell.val.type = SQLITE_NULL =>
       /\ last.op = "getInt" => last.ret = 0
       /\ last.op = "getInt64" => last.ret = I64Zero
       /\ last.op = "getDouble" => last.ret = DblZero
       /\ last.op = "getText" => last.ret = << >>
       /\ last.op = "getBytes" => last.ret = 0
       /\ last.op = "isNull" /\ ~LastCell.coerced => last.ret = TRUE

\* C5 as stated: the Null tag whatever has been called on the cell before
C5_AsStated ==
  \A a \in Slots : Valid(a) /\ StoredAt(cols[a]).type = SQLITE_NULL =>
    NullValues(cols[a]) /\ NullTag(cols[a])

\* isNull() has just answered true on the untouched NULL cell
C5_Witness ==
  /\ last.op = "isNull" /\ last.ret = TRUE
  /\ LastCell.val.type = SQLITE_NULL /\ ~LastCell.coerced

(***************************************************************************)
(* C6.  For an integer v stored in a cell, the Column of that index        *)
(* reports the Integer tag before any coercion, getInt64() returns v,      *)
(* getInt() returns v when v fits the 32-bit int, getDouble() returns v    *)
(* as a floating-point number and getText() the decimal text of v,         *)
(* whatever has been called on the Columns of the other indices.           *)
(***************************************************************************)
Txt42 == << 52, 50 >>
Txt123 == << 49, 50, 51 >>
Txt4294967338 == << 52, 50, 57, 52, 57, 54, 55, 51, 51, 56 >>
IntegerCommon(c, v) ==
  /\ ~Cell(c).coerced => getType(c) = {SQLITE_INTEGER}
  /\ getInt64(c) = v
  /\ DblToI64(getDouble(c)) = v /\ getDouble(c).frac = << >>
  /\ v = I64OfInt(42) => getText(c) = Txt42
  /\ v = I64OfInt(123) => getText(c) = Txt123
  /\ v = I64(1, 42) => getText(c) = Txt4294967338
  /\ FitsInt(v) => TextToI64(getText(c)) = v
C6_IntegerCell ==
  \A a \in Slots : Valid(a) /\ StoredAt(cols[a]).type = SQLITE_INTEGER =>
    /\ IntegerCommon(cols[a], StoredAt(cols[a]).i)
    /\ FitsInt(StoredAt(cols[a]).i) =>
         I64OfInt(getInt(cols[a])) = StoredAt(cols[a]).i

\* C6 as stated: getInt() returns v for every stored integer v
C6_AsStated ==
  \A a \in Slots : Valid(a) /\ StoredAt(cols[a]).type = SQLITE_INTEGER =>
    /\ IntegerCommon(cols[a], StoredAt(cols[a]).i)
    /\ I64OfInt(getInt(cols[a])) = StoredAt(cols[a]).i

\* getText() has just returned "42" for the second column while the blob of
\* the first column had been read as text
C6_Witness ==
  /\ last.op = "getText" /\ last.idx = 1 /\ last.ret = Txt42
  /\ LastCell.val = IntCell(I64OfInt(42))
  /\ mem[1].coerced

(***************************************************************************)
(* C7.  For a blob cell, getBytes() is the number of stored bytes and the  *)
(* first getBytes() bytes at getBlob() are the stored bytes in order, a    *)
(* zero byte included: 3 bytes for 00 FF 10.                               *)
(***************************************************************************)
C7_BlobRoundTrip ==
  /\ \A a \in Slots : Valid(a) /\ StoredAt(cols[a]).type = SQLITE_BLOB =>
       /\ getBytes(cols[a]) = Len(StoredAt(cols[a]).z)
       /\ SubSeq(getBlob(cols[a]), 1, getBytes(cols[a])) = StoredAt(cols[a]).z
       /\ StoredAt(cols[a]).z = Blob00FF10 => getBytes(cols[a]) = 3
  /\ LastOnCell /\ LastCell.val.type = SQLITE_BLOB =>
       /\ last.op = "getBytes" => last.ret = Len(LastCell.val.z)
       /\ last.op = "getBlob" => last.ret = LastCell.val.z

\* getBytes() has just returned 3 for the blob 00 FF 10, after the blob had
\* been read as text
C7_Witness ==
  /\ last.op = "getBytes" /\ last.ret = 3
  /\ LastCell.val = BlobCell(Blob00FF10) /\ LastCell.term

(***************************************************************************)
(* C8.  The buffer getText() returned for a cell stays where it is, with   *)
(* the content it had, through every call on the Columns of the statement  *)
(* (getters on the same cell or on other cells, copies, destructions)      *)
(* until the statement is stepped, reset or finalized; after one of those  *)
(* three the pointer is no longer valid.                                   *)
(***************************************************************************)
\* the held pointer addresses the cell's buffer, holding the string returned
C8_HeldValid ==
  IsPtr(held) =>
    /\ OnRow /\ ~finalized
    /\ mem[held.col + 1].alloc = held.alloc
    /\ CStr(TextBuf(mem[held.col + 1])) = held.str
C8_TextBufferLifetime ==
  /\ []C8_HeldValid
  /\ [][ IF last'.op \in {"executeStep", "reset"} \/ (finalized' /\ ~finalized)
           THEN ~IsPtr(held') /\ (IsPtr(held) => held' = Dangling)
           ELSE IsPtr(held) =>
                  /\ held' # Dangling
                  /\ mem'[held.col + 1].alloc = held.alloc
                  /\ mem'[held.col + 1].z = mem[held.col + 1].z
                  /\ mem'[held.col + 1].term ]_vars

\* the pointer getText() returned for the blob cell is held, and getInt() has
\* since been called on the same cell
C8_Witness ==
  /\ IsPtr(held) /\ last.op = "getInt" /\ last.idx = held.col
  /\ LastCell.val.type = SQLITE_BLOB

(***************************************************************************)
(* C9.  Each conversion operator returns what its getter returns on the    *)
(* same cell state and leaves the engine cell as the getter would:         *)
(* operator int() as getInt(), operator sqlite3_int64() as getInt64(),     *)
(* operator double() as getDouble(), operator const char*() as getText()   *)
(* and operator const void*() as getBlob().                                *)
(***************************************************************************)
\* the getter each operator stands for: its value on Column c, its request
GetterOf(op, c) ==
  CASE op = "operator int" -> [ret |-> getInt(c), req |-> RequestOf.getInt]
    [] op = "operator sqlite3_int64" -> [ret |-> getInt64(c), req |-> RequestOf.getInt64]
    [] op = "operator double" -> [ret |-> getDouble(c), req |-> RequestOf.getDouble]
    [] op = "operator const char*" -> [ret |-> getText(c), req |-> RequestOf.getText]
    [] op = "operator const void*" -> [ret |-> getBlob(c), req |-> RequestOf.getBlob]
C9_OperatorsAlias ==
  [][ last'.op \in OperatorOps =>
        /\ last'.ret = GetterOf(last'.op, Column(TheStmt, last'.idx)).ret
        /\ mem'[last'.idx + 1] \in
             MemOutcomes(mem[last'.idx + 1],
                         GetterOf(last'.op, Column(TheStmt, last'.idx)).req)
        /\ \A i \in DOMAIN mem : i # last'.idx + 1 => mem'[i] = mem[i] ]_vars

\* operator int() has just returned 123 for the integer cell 123
C9_Witness ==
  /\ last.op = "operator int" /\ last.ret = 123
  /\ LastCell.val = IntCell(I64OfInt(123))

(***************************************************************************)
(* C10.  As long as the only calls made on a cell since the row was        *)
(* positioned are getType(), the predicates and the getter of the cell's   *)
(* storage type, getType() returns the storage tag; once a getter of       *)
(* another type has been called on the cell, getType() may return any      *)
(* tag, and no call on a Column restores the storage tag.                  *)
(***************************************************************************)
NativeGetters(t) ==
  CASE t = SQLITE_INTEGER -> {"getInt", "getInt64"}
    [] t = SQLITE_FLOAT -> {"getDouble"}
    [] t = SQLITE_TEXT -> {"getText"}
    [] t = SQLITE_BLOB -> {"getBlob"}
    [] t = SQLITE_NULL -> {}
TypedGetters == {"getInt", "getInt64", "getDouble", "getText", "getBlob"}
C10_TagStability ==
  [][ /\ last'.op = "executeStep" /\ pos' <= NumRows =>
           \A i \in DOMAIN mem' : ColumnType(mem'[i]) = {Table[pos'][i].type}
      /\ last'.op \in {"getType"} \cup PredicateOps \cup TypedGetters =>
           LET m == mem[last'.idx + 1]
               m2 == mem'[last'.idx + 1]
           IN  /\ last'.op = "getType" /\ ColumnType(m) = {m.val.type} =>
                    last'.ret = m.val.type
               /\ last'.op \in {"getType"} \cup PredicateOps
                                 \cup NativeGetters(m.val.type) =>
                    ColumnType(m2) = ColumnType(m)
               /\ last'.op \in TypedGetters \ NativeGetters(m.val.type) =>
                    ColumnType(m2) = Tags
      /\ last'.op \in ConstCalls =>
           \A i \in DOMAIN mem :
             ColumnType(mem[i]) = Tags => ColumnType(mem'[i]) = Tags ]_vars

\* getType() has just returned a tag that is not the cell's storage tag
C10_Witness ==
  /\ last.op = "getType" /\ last.ret # LastCell.val.type
  /\ LastCell.coerced
====
